---------------------------- MODULE Spec2Model ----------------------------
(***************************************************************************)
(* Model of the assistant store of the network diagnostic platform:        *)
(*   - the streaming turn of sendMessage / sendMessageStream /             *)
(*     _handleStreamResponse / _addContentCharByChar / _handleStreamError  *)
(*     (frontend/src/stores/ai-assistant/actions/messaging.ts),            *)
(*   - the line decoder of aiService.sendMessageStream (processLine),      *)
(*   - the retrying request client aiService.sendMessageWithRetry.         *)
(*                                                                         *)
(* Text is a sequence of UTF-16 code units, one string per unit.  The      *)
(* units of the three in-band markers are named:                           *)
(*   "[" "D" "O" "N" "E" "]"           the terminator token  [DONE]        *)
(*   "cuo" "wu" ":"                    the error marker      U+9519 U+8BEF *)
(*   "hs" "ls" "si" "kao" ":" " "      the thinking marker: the surrogate  *)
(*                                     pair of U+1F914, U+601D, U+8003,    *)
(*                                     a colon and a blank                 *)
(*                                                                         *)
(* Scheduling: JavaScript runs one task at a time.  A handler runs from    *)
(* one macrotask suspension (the HTTP request, a setTimeout) to the next;  *)
(* promise continuations (nextTick, a read of an already filled stream,    *)
(* the return of an async function) are microtasks and run before any      *)
(* other task, so each action below is one such run.                       *)
(***************************************************************************)
EXTENDS Integers, Sequences, FiniteSets, TLC

(***************************************************************************)
(* Bounds of the model.                                                    *)
(***************************************************************************)
MaxTurns == 2        \* sendMessage calls that are accepted
MaxLines == 2        \* response lines the server sends, over all turns
MaxAttempts == 3     \* largest maxRetries given to sendMessageWithRetry
MaxMessages == 2     \* longest list given to formatMessages
MaxPayload == 32     \* longest payload of a response line, in code units
MaxCalls == 2        \* calls of connectToDevice, and commands between them
MaxInFlight == 1     \* requests to cancel, to disconnect or to execute in flight
MaxCommands == 51    \* commands typed into the terminal

Turns == 1..MaxTurns

(***************************************************************************)
(* Text helpers (String.prototype).                                        *)
(***************************************************************************)
RECURSIVE Concat(_)
Concat(ss) == IF ss = <<>> THEN <<>> ELSE Head(ss) \o Concat(Tail(ss))

StartsWith(s, p) == Len(s) >= Len(p) /\ SubSeq(s, 1, Len(p)) = p

Includes(s, p) ==
    \E k \in 1..(Len(s) - Len(p) + 1) : SubSeq(s, k, k + Len(p) - 1) = p

Substring(s, from) == SubSeq(s, from + 1, Len(s))

IsSpace(c) == c \in {" ", "\n"}

RECURSIVE TrimLeft(_)
TrimLeft(s) == IF s # <<>> /\ IsSpace(Head(s)) THEN TrimLeft(Tail(s)) ELSE s

RECURSIVE TrimRight(_)
TrimRight(s) ==
    IF s # <<>> /\ IsSpace(s[Len(s)]) THEN TrimRight(SubSeq(s, 1, Len(s) - 1)) ELSE s

Trim(s) == TrimRight(TrimLeft(s))

DoneToken == <<"[", "D", "O", "N", "E", "]">>
ErrorMarker == <<"cuo", "wu", ":">>
ThinkingMarker == <<"hs", "ls", "si", "kao", ":", " ">>
ThinkingMarkerLen == 6


(***************************************************************************)
(* The line decoder: processLine of aiService.sendMessageStream.  A line   *)
(* of the response text is modelled by what JSON.parse makes of it:        *)
(*   [kind |-> "doneLine"]                        data: [DONE]             *)
(*   [kind |-> "event", type, text]               {"type":..,"data":{..}}  *)
(*   [kind |-> "choices", content, reasoning]     choices[0].delta         *)
(*   [kind |-> "errorField", text]                {"error": ..}            *)
(*   [kind |-> "badJson", text]                   starts with { , no JSON  *)
(*   [kind |-> "plain", text]                     anything else            *)
(* and its result is the sequence of chunks it enqueues on the stream.     *)
(***************************************************************************)
StructuredThreshold == 20
StructuredParts == 3
PlainThreshold == 30
PlainParts == 4

Min(a, b) == IF a < b THEN a ELSE b

CeilDiv(a, b) == (a + b - 1) \div b

RECURSIVE SplitEvery(_, _)
SplitEvery(s, n) ==
    IF Len(s) <= n THEN (IF s = <<>> THEN <<>> ELSE <<s>>)
    ELSE <<SubSeq(s, 1, n)>> \o SplitEvery(SubSeq(s, n + 1, Len(s)), n)

SplitContent(content, threshold, parts) ==
    IF Len(content) > threshold
    THEN SplitEvery(content, Min(threshold, CeilDiv(Len(content), parts)))
    ELSE <<content>>

ThinkingChunk(text) == ThinkingMarker \o text

ErrorChunk(text) == ErrorMarker \o <<" ">> \o text

LegacyChunks(content, reasoning) ==
    (IF reasoning # <<>> THEN <<ThinkingChunk(reasoning)>> ELSE <<>>)
    \o (IF content # <<>> THEN SplitContent(content, StructuredThreshold, StructuredParts)
        ELSE <<>>)

\* a surrogate without its partner
Replacement == "fffd"

\* encoder.encode(chunk), as the TextDecoder of the reader gives it back:
\* TextEncoder writes U+FFFD for a surrogate that stands alone
RECURSIVE Encode(_)
Encode(chunk) ==
    IF chunk = <<>> THEN <<>>
    ELSE IF Len(chunk) >= 2 /\ chunk[1] = "hs" /\ chunk[2] = "ls"
         THEN <<"hs", "ls">> \o Encode(SubSeq(chunk, 3, Len(chunk)))
    ELSE IF Head(chunk) \in {"hs", "ls"} THEN <<Replacement>> \o Encode(Tail(chunk))
    ELSE <<Head(chunk)>> \o Encode(Tail(chunk))

\* processLine with a catch that reports the line as an error
CatchAsError(line) ==
    CASE line.kind = "doneLine" -> <<>>
      [] line.kind = "event" ->
            IF line.type = "thinking" /\ line.text # <<>> THEN <<ThinkingChunk(line.text)>>
            ELSE IF line.type = "content" /\ line.text # <<>>
                 THEN SplitContent(line.text, StructuredThreshold, StructuredParts)
            ELSE IF line.type = "error" /\ line.text # <<>> THEN <<ErrorChunk(line.text)>>
            ELSE <<>>
      [] line.kind = "choices" -> LegacyChunks(line.content, line.reasoning)
      [] line.kind = "errorField" -> LegacyChunks(ErrorChunk(line.text), <<>>)
      [] line.kind = "badJson" -> <<ErrorChunk(line.text)>>
      [] line.kind = "plain" ->
            IF line.text # <<>> /\ ~Includes(line.text, DoneToken)
            THEN SplitContent(line.text, PlainThreshold, PlainParts)
            ELSE <<>>

\* the chunks a line hands to controller.enqueue(encoder.encode(..))
Enqueued(line) ==
    CASE line.kind = "doneLine" -> <<>>
      [] line.kind = "event" ->
            IF line.type = "thinking" /\ line.text # <<>> THEN <<ThinkingChunk(line.text)>>
            ELSE IF line.type = "content" /\ line.text # <<>>
                 THEN SplitContent(line.text, StructuredThreshold, StructuredParts)
            ELSE IF line.type = "error" /\ line.text # <<>> THEN <<ErrorChunk(line.text)>>
            ELSE <<>>
      [] line.kind = "choices" -> LegacyChunks(line.content, line.reasoning)
      [] line.kind = "errorField" -> LegacyChunks(ErrorChunk(line.text), <<>>)
      [] line.kind = "badJson" ->
            IF line.text # <<>> /\ ~Includes(line.text, DoneToken) THEN <<line.text>> ELSE <<>>
      [] line.kind = "plain" ->
            IF line.text # <<>> /\ ~Includes(line.text, DoneToken)
            THEN SplitContent(line.text, PlainThreshold, PlainParts)
            ELSE <<>>

ProcessLine(line) == [k \in DOMAIN Enqueued(line) |-> Encode(Enqueued(line)[k])]

RECURSIVE ProcessLines(_)
ProcessLines(ls) ==
    IF ls = <<>> THEN <<>> ELSE ProcessLine(Head(ls)) \o ProcessLines(Tail(ls))

(***************************************************************************)
(* what aiService.sendMessageStream returns for a response: always a       *)
(* stream.  [chunks, ending]: ending "close" after the chunks, or "error"  *)
(* (controller.error) when the body was no text.                           *)
(***************************************************************************)
ErrorStreamChunk == ErrorMarker \o <<" ", "request failed">>

StreamOf(response) ==
    CASE response.kind = "text" -> [chunks |-> ProcessLines(response.lines), ending |-> "close"]
      [] response.kind = "notText" -> [chunks |-> <<>>, ending |-> "error"]
      [] response.kind = "failed" -> [chunks |-> <<ErrorStreamChunk>>, ending |-> "close"]
      [] OTHER -> [chunks |-> <<>>, ending |-> "none"]

(***************************************************************************)
(* State.                                                                  *)
(*                                                                         *)
(* A message is [id, role, content, timestamp, th, thinking, orig].  th is *)
(* the turn whose thinking object the message's `thinking` property refers *)
(* to (a spread copy shares it with the object it was copied from), or 0   *)
(* for a message that holds its thinking by itself.  orig tells the        *)
(* object that generateId() was called for from a spread copy of it        *)
(* ({ ...assistantMessage }): the copy has the same id and is another      *)
(* object, which is what Array.prototype.indexOf compares.                 *)
(***************************************************************************)
VARIABLES
    isModelConnected,        \* state.isModelConnected
    isAIResponding,          \* state.isAIResponding
    isStreamingContent,      \* state.isStreamingContent
    isThinking,              \* state.isThinking
    currentThinkingContent,  \* state.currentThinkingContent
    chatMessages,            \* state.chatMessages
    thinking,                \* the thinking objects, one per turn
    selectedModel,           \* state.selectedModel
    storage,                 \* localStorage, the chat_history_ keys of it
    nextId,                  \* generateId()
    checkPending,            \* checkModelConnection awaits the status request
    linesLeft,               \* response lines still to come
    pc,                      \* where each sendMessage call is
    content,                 \* its argument
    assistantMessage,        \* the local assistantMessage of sendMessageStream
    request,                 \* the body of its request
    response,                \* the response to its request
    queue,                   \* chunks of its stream not yet read
    chars,                   \* _addContentCharByChar: characters not yet added
    contentReceived,         \* _handleStreamResponse: contentReceived
    thinkingContent,         \* _handleStreamResponse: thinkingContent
    frozen,                  \* history: the ids in chatMessages when the call ended
    rpc,                     \* where the sendMessageWithRetry call is
    params,                  \* its argument params
    maxRetries,              \* its argument maxRetries
    retries,                 \* its local retries
    lastError,               \* its local lastError
    calls,                   \* api.post calls it has made
    delays,                  \* the delays it has waited, in ms
    outcomes,                \* how each api.post ended
    result,                  \* what it returned or threw
    formatInput,             \* formatMessages: its argument messages
    formatted,               \* formatMessages: what it returned
    line,                    \* processLine: its argument line
    emitted,                 \* processLine: the chunks the reader gets for it
    connectionStatus,        \* terminal store: connectionStatus
    sessionId,               \* terminal store: sessionId (0 is null)
    deviceAddress,           \* terminal store: deviceAddress
    canCancelConnection,     \* terminal store: canCancelConnection
    terminalOutput,          \* terminal store: terminalOutput
    commandHistory,          \* terminal store: commandHistory
    historyIndex,            \* terminal store: historyIndex
    connecting,              \* terminalService.connect calls in flight
    cancelling,              \* terminalService.cancelConnection calls in flight
    disconnecting,           \* terminalService.disconnect calls in flight
    executing,               \* terminalService.execute calls in flight
    connectCalls,            \* calls of connectToDevice so far
    typed,                   \* commands executed so far
    nextSession              \* the session_id the server gives next

storeVars == <<isModelConnected, isAIResponding, isStreamingContent, isThinking,
               currentThinkingContent, chatMessages, thinking, selectedModel, storage,
               nextId, checkPending, linesLeft>>
turnVars == <<pc, content, assistantMessage, request, response, queue, chars,
              contentReceived, thinkingContent, frozen>>
retryVars == <<rpc, params, maxRetries, retries, lastError, calls, delays, outcomes, result>>
formatVars == <<formatInput, formatted>>
decoderVars == <<line, emitted>>
terminalVars == <<connectionStatus, sessionId, deviceAddress, canCancelConnection,
                  terminalOutput, commandHistory, historyIndex, connecting, cancelling,
                  disconnecting, executing, connectCalls, typed, nextSession>>
sideVars == <<formatVars, decoderVars, terminalVars>>
vars == <<storeVars, turnVars, retryVars, sideVars>>

NonTerminal == {"awaiting", "typing"}
Terminal == {"success", "error"}

\* Date.now(): the runs of the store modelled here fall within one tick of
\* the clock; conversations read from storage hold earlier times
DateNow == 1

NoThinking == [exists |-> FALSE, content |-> <<>>, isComplete |-> FALSE, timestamp |-> 0]
NoMessage == [id |-> 0, role |-> "none", content |-> <<>>, timestamp |-> 0,
              th |-> 0, thinking |-> NoThinking, orig |-> FALSE]

NewMessage(id, role, text) ==
    [id |-> id, role |-> role, content |-> text, timestamp |-> DateNow,
     th |-> 0, thinking |-> NoThinking, orig |-> TRUE]

\* the first index of the list that holds a message with this id, or 0
FindIndexById(msgs, id) ==
    IF \E k \in DOMAIN msgs : msgs[k].id = id
    THEN CHOOSE k \in DOMAIN msgs :
            msgs[k].id = id /\ \A j \in DOMAIN msgs : msgs[j].id = id => k <= j
    ELSE 0

\* the index of the list that holds this very object, or 0
IndexOf(msgs, m) ==
    IF \E k \in DOMAIN msgs : msgs[k].id = m.id /\ msgs[k].orig
    THEN CHOOSE k \in DOMAIN msgs : msgs[k].id = m.id /\ msgs[k].orig
    ELSE 0

RemoveAt(msgs, k) == SubSeq(msgs, 1, k - 1) \o SubSeq(msgs, k + 1, Len(msgs))

\* an assignment to a property of the object m: the list sees it while it
\* still holds that object
Assign(msgs, m) ==
    [k \in DOMAIN msgs |-> IF msgs[k].id = m.id /\ msgs[k].orig THEN m ELSE msgs[k]]

\* state.chatMessages[messageIndex] = { ...assistantMessage }
\* state.chatMessages = [...state.chatMessages]
ReplaceByCopy(msgs, m) ==
    LET messageIndex == FindIndexById(msgs, m.id) IN
    IF messageIndex # 0
    THEN [msgs EXCEPT ![messageIndex] = [m EXCEPT !.orig = FALSE]]
    ELSE msgs

\* the thinking property of a message: its own object, or the shared one
ThinkingOf(m, th) == IF m.th = 0 THEN m.thinking ELSE th[m.th]

\* JSON.stringify of the messages, without the thinking sub-records
SerializeWithoutThinking(msgs, th) ==
    [k \in DOMAIN msgs |->
        [id |-> msgs[k].id, role |-> msgs[k].role, content |-> msgs[k].content,
         timestamp |-> msgs[k].timestamp, thinking |-> NoThinking]]

\* JSON.stringify(chatData) of saveChat, the messages of it: the own
\* properties of each message, by value
Serialize(msgs, th) ==
    [k \in DOMAIN msgs |->
        [id |-> msgs[k].id, role |-> msgs[k].role, content |-> msgs[k].content,
         timestamp |-> msgs[k].timestamp, thinking |-> ThinkingOf(msgs[k], th)]]

\* JSON.parse of the messages: new objects, which own their thinking
Deserialize(items) ==
    [k \in DOMAIN items |->
        [id |-> items[k].id, role |-> items[k].role, content |-> items[k].content,
         timestamp |-> items[k].timestamp, th |-> 0, thinking |-> items[k].thinking,
         orig |-> FALSE]]

(***************************************************************************)
(* localStorage.  The text under a key is modelled by what getItem and     *)
(* JSON.parse make of it, [kind, messages]:                                *)
(*   "missing"      no such key (getItem returns null)                     *)
(*   "empty"        the empty string                                       *)
(*   "garbage"      text that JSON.parse rejects                           *)
(*   "list"         a JSON array, the bare list of messages                *)
(*   "chatData"     a JSON object whose messages property is an array      *)
(*   "object"       a JSON object without a messages property              *)
(*   "objectOther"  a JSON object whose messages property is no array      *)
(*   "scalar"       a number, string or true                               *)
(*   "falsy"        null, 0, false or ""  as JSON                          *)
(***************************************************************************)
Models == {"deepseek-chat", "qwen"}

\* one key for the conversations of all models
SharedKey(model) == <<"chat_history_">>

\* `chat_history_${state.selectedModel}`
StorageKey(model) == <<"chat_history_", model>>

Keys == {StorageKey(model) : model \in Models}

StoredText(kind, items) == [kind |-> kind, messages |-> items]

Missing == StoredText("missing", <<>>)

\* a write that, when it fails, leaves a text cut short under the key
SaveChatTorn(store, key, msgs, th, ok) ==
    [store EXCEPT ![key] =
        IF ok THEN StoredText("chatData", Serialize(msgs, th))
        ELSE StoredText("garbage", <<>>)]

\* localStorageUtils.saveChat(key, chatData): setItem stores the whole text
\* (ok), or throws and stores nothing
SaveChat(store, key, msgs, th, ok) ==
    IF ok THEN [store EXCEPT ![key] = StoredText("chatData", Serialize(msgs, th))]
    ELSE store

\* localStorageUtils.loadChat(key): the parsed value, or null
Null == [type |-> "null", truthy |-> FALSE, items |-> <<>>]

LoadChat(store, key) ==
    LET data == store[key] IN
    CASE data.kind \in {"missing", "empty", "garbage"} -> Null
      [] data.kind = "falsy" -> [type |-> "scalar", truthy |-> FALSE, items |-> <<>>]
      [] data.kind = "scalar" -> [type |-> "scalar", truthy |-> TRUE, items |-> <<>>]
      [] data.kind = "list" ->
            [type |-> "array", truthy |-> TRUE, items |-> Deserialize(data.messages)]
      [] data.kind = "chatData" ->
            [type |-> "chatData", truthy |-> TRUE, items |-> Deserialize(data.messages)]
      [] data.kind \in {"object", "objectOther"} ->
            [type |-> "object", truthy |-> TRUE, items |-> <<>>]

\* a load that knows the wrapped object only
LoadedFromObjectOnly(store, key) ==
    IF store[key].kind = "chatData" THEN Deserialize(store[key].messages) ELSE <<>>

\* what loadConversationFromStorage assigns to state.chatMessages
LoadedMessages(store, key) ==
    LET savedData == LoadChat(store, key) IN
    IF savedData.truthy
    THEN IF savedData.type = "array" THEN savedData.items
         ELSE IF savedData.type = "chatData" THEN savedData.items
         ELSE <<>>
    ELSE <<>>

(***************************************************************************)
(* _handleStreamResponse and what it calls, as functions of a context c:   *)
(* the store fields and the locals of the turn t that one run of the       *)
(* handler reads and writes.                                               *)
(***************************************************************************)
ErrorText(errorMsg) == <<"error occurred: ", errorMsg>>

\* an error handler that records nothing and leaves the turn where it is
SwallowError(c, errorMsg) == c

\* _handleStreamError(assistantMessage, errorMsg)
HandleStreamError(c, errorMsg) ==
    LET index == IndexOf(c.msgs, c.am)
        kept == IF index # 0 THEN RemoveAt(c.msgs, index) ELSE c.msgs
    IN  [c EXCEPT !.msgs = Append(kept, NewMessage(c.nextId, "assistant", ErrorText(errorMsg))),
                  !.nextId = @ + 1,
                  !.isThinking = FALSE,
                  !.cur = <<>>,
                  !.pc = "error"]

\* chunk.substring(5), which keeps the blank of the marker
ThinkingTextKeepsBlank(chunk) == Substring(chunk, ThinkingMarkerLen - 1)

\* chunk.substring(6): the text after the thinking marker
ThinkingText(chunk) == Substring(chunk, ThinkingMarkerLen)

\* if (chunk.startsWith(thinking marker)) { ... continue }
ApplyThinking(c, t, chunk) ==
    LET thinkingContent1 == c.thinkingContent \o ThinkingText(chunk)
        th1 == IF c.am.th = 0
               THEN [c.th EXCEPT ![t] = [exists |-> TRUE, content |-> thinkingContent1,
                                         isComplete |-> FALSE, timestamp |-> DateNow]]
               ELSE [c.th EXCEPT ![c.am.th].content = thinkingContent1]
        am1 == [c.am EXCEPT !.th = IF @ = 0 THEN t ELSE @]
    IN  [c EXCEPT !.thinkingContent = thinkingContent1,
                  !.isThinking = TRUE,
                  !.cur = thinkingContent1,
                  !.th = th1,
                  !.am = am1,
                  !.msgs = ReplaceByCopy(Assign(c.msgs, am1), am1)]

\* if (chunk.startsWith(error marker)) { ... continue }
ApplyErrorChunk(c, chunk) ==
    LET am1 == [c.am EXCEPT !.content = @ \o <<"\n">> \o chunk] IN
    [c EXCEPT !.am = am1,
              !.contentReceived = TRUE,
              !.msgs = ReplaceByCopy(Assign(c.msgs, am1), am1)]

\* _addContentCharByChar: one round of its loop, up to the setTimeout
TypeChar(c) ==
    LET am1 == [c.am EXCEPT !.content = Append(@, Head(c.chars))] IN
    [c EXCEPT !.am = am1,
              !.chars = Tail(@),
              !.msgs = ReplaceByCopy(Assign(c.msgs, am1), am1),
              !.pc = "typing"]

\* after the read loop: decoder.decode() has nothing left, since every chunk
\* was encoded whole; then the thinking is completed and the content judged
AfterLoop(c) ==
    LET done == c.thinkingContent # <<>> /\ c.am.th # 0
        c1 == IF done
              THEN [c EXCEPT !.th[c.am.th].isComplete = TRUE,
                             !.isThinking = FALSE,
                             !.cur = <<>>]
              ELSE c
        c2 == IF ~c1.contentReceived \/ Trim(c1.am.content) = <<>>
              THEN HandleStreamError(c1, "no valid content")
              ELSE [c1 EXCEPT !.pc = "success"]
    IN  [c2 EXCEPT !.isThinking = FALSE, !.cur = <<>>]

\* catch (e) of the read loop
CatchReadError(c) == HandleStreamError(c, "reading the stream failed")

\* the read loop, from one reader.read() up to the next setTimeout or the end
RECURSIVE ReadLoop(_, _)

\* continue: the loop goes round, from the context c (taken as a value)
Continue(c, t) == CHOOSE after \in {ReadLoop(now, t) : now \in {c}} : TRUE

ReadLoop(c, t) ==
    IF c.queue = <<>>
    THEN IF c.ending = "error" THEN CatchReadError(c) ELSE AfterLoop(c)
    ELSE LET chunk == Head(c.queue)
             rest == [c EXCEPT !.queue = Tail(@)]
         IN  IF Includes(chunk, DoneToken) THEN Continue(rest, t)
             ELSE IF StartsWith(chunk, ErrorMarker) THEN Continue(ApplyErrorChunk(rest, chunk), t)
             ELSE IF StartsWith(chunk, ThinkingMarker) THEN Continue(ApplyThinking(rest, t, chunk), t)
             ELSE TypeChar([rest EXCEPT !.chars = chunk])

\* the context of turn t in the current state
Context(t) ==
    [msgs |-> chatMessages, th |-> thinking, am |-> assistantMessage[t],
     thinkingContent |-> thinkingContent[t], contentReceived |-> contentReceived[t],
     queue |-> queue[t], ending |-> StreamOf(response[t]).ending, chars |-> chars[t],
     isThinking |-> isThinking, cur |-> currentThinkingContent,
     isAIResponding |-> isAIResponding, isStreamingContent |-> isStreamingContent,
     nextId |-> nextId, pc |-> pc[t]]

\* the state after a run of turn t's handler that ended in context c: the
\* run stopped at a setTimeout, or the handler returned, sendMessageStream
\* saved the conversation, and the finally of sendMessage reset the flags
\* and saved it again (w1, w2: whether the two writes succeed)
ResumeAt(t, c, w1, w2) ==
    /\ chatMessages' = c.msgs
    /\ thinking' = c.th
    /\ assistantMessage' = [assistantMessage EXCEPT ![t] = c.am]
    /\ thinkingContent' = [thinkingContent EXCEPT ![t] = c.thinkingContent]
    /\ contentReceived' = [contentReceived EXCEPT ![t] = c.contentReceived]
    /\ queue' = [queue EXCEPT ![t] = c.queue]
    /\ chars' = [chars EXCEPT ![t] = c.chars]
    /\ isThinking' = c.isThinking
    /\ currentThinkingContent' = c.cur
    /\ nextId' = c.nextId
    /\ pc' = [pc EXCEPT ![t] = c.pc]
    /\ isAIResponding' = IF c.pc \in Terminal THEN FALSE ELSE c.isAIResponding
    /\ isStreamingContent' = IF c.pc \in Terminal THEN FALSE ELSE c.isStreamingContent
    /\ storage' = IF c.pc \in Terminal
                   THEN LET key == StorageKey(selectedModel)
                            first == SaveChat(storage, key, c.msgs, c.th, w1)
                        IN  SaveChat(first, key, c.msgs, c.th, w2)
                   ELSE storage
    /\ selectedModel' = selectedModel
    /\ frozen' = IF c.pc \in Terminal
                  THEN [frozen EXCEPT ![t] = {c.msgs[k].id : k \in DOMAIN c.msgs}]
                  ELSE frozen

\* the same, with the context the run ended in taken as a value
Resume(t, c, w1, w2) == \E after \in {c} : ResumeAt(t, after, w1, w2)

(***************************************************************************)
(* Inputs.                                                                 *)
(***************************************************************************)
\* content.length, in UTF-16 units: every unit of a text counts one, but
\* LongRun, which stands for a run of MaxMessageLength letters
MaxMessageLength == 4000

LongRun == "xxx...x"

UnitLength(u) == IF u = LongRun THEN MaxMessageLength ELSE 1

RECURSIVE Length(_)
Length(text) == IF text = <<>> THEN 0 ELSE UnitLength(Head(text)) + Length(Tail(text))

\* validateMessage(content) of the util actions
ValidateMessage(text) ==
    IF text = <<>> THEN FALSE
    ELSE Length(Trim(text)) > 0 /\ Length(Trim(text)) <= MaxMessageLength

\* a text of MaxMessageLength + 1 letters
TooLong == <<LongRun, "y">>

UserTexts == {<<"p">>, <<" ">>}

\* texts at and around the limits of validateMessage
EdgeTexts == {<<"p">>, <<" ">>, <<>>, <<LongRun>>, TooLong}

Event(type, text) == [kind |-> "event", type |-> type, text |-> text]

\* a line that is the text of an exception of the server, such as
\* TypeError: Client.request() got an unexpected keyword argument
ExceptionSignature == <<"TypeError: Client.request() got an unexpected keyword argument">>

LineMenu ==
    { Event("content", <<"a">>),
      Event("content", <<" ">>),
      Event("content", DoneToken),
      Event("thinking", <<"t">>),
      [kind |-> "choices", content |-> <<"b">>, reasoning |-> <<"u">>],
      Event("error", <<"e">>),
      Event("content", ErrorMarker \o <<"x">>),
      [kind |-> "doneLine"] }

\* lines of a server that fails: plain text, no JSON
PlainMenu ==
    { [kind |-> "plain", text |-> ExceptionSignature],
      [kind |-> "plain", text |-> <<"a">>],
      [kind |-> "doneLine"] }

\* lines of a turn that ends well, ends without content, or ends with its
\* pending message left in the list
ShortMenu ==
    { Event("content", <<"a">>),
      Event("thinking", <<"t">>),
      [kind |-> "doneLine"] }

\* lines around the terminator: content, the terminator line, and lines
\* that hold the terminator token within other text
AroundDone == <<"c">> \o DoneToken \o <<"d">>

DoneMenu ==
    { Event("content", <<"a">>),
      [kind |-> "doneLine"],
      Event("content", AroundDone),
      [kind |-> "plain", text |-> AroundDone] }

SeqsUpTo(S, n) == UNION {[1..k -> S] : k \in 0..n}

ResponsesOf(menu, n) ==
    {[kind |-> "text", lines |-> ls] : ls \in SeqsUpTo(menu, n)}
    \cup {[kind |-> "notText", lines |-> <<>>], [kind |-> "failed", lines |-> <<>>]}

Responses(n) == ResponsesOf(LineMenu, n)

NoResponse == [kind |-> "none", lines |-> <<>>]

(***************************************************************************)
(* The body of the request of a streaming turn.                            *)
(***************************************************************************)
\* formatMessages: a message is [role, content], or [role |-> "malformed"]
\* for an entry that is no object; role "" is a missing role
FormatMessage(msg) ==
    IF msg.role = "malformed" THEN [role |-> "user", content |-> <<"invalid message">>]
    ELSE [role |-> IF msg.role = "" THEN "user" ELSE msg.role,
          content |-> IF msg.content # <<>> THEN Trim(msg.content) ELSE <<"empty content">>]

RECURSIVE FormatMessages(_)
FormatMessages(messages) ==
    IF messages = <<>> THEN <<>>
    ELSE LET m == FormatMessage(Head(messages)) IN
         (IF m.content # <<>> THEN <<m>> ELSE <<>>) \o FormatMessages(Tail(messages))

NoRequest == [model |-> "", messages |-> <<>>]

\* msg !== assistantMessage, in the filter over state.chatMessages: state is
\* reactive(initialState()), so the filter reads each msg through the
\* reactive list and gets the reactive proxy of the element, while
\* assistantMessage is the object itself: the two are never the same
IsNotTheObject(msg, am) == TRUE

\* const messageHistory = state.chatMessages.filter(...).map(...)
MessageHistory(msgs, am) ==
    LET Kept(msg) == IsNotTheObject(msg, am)
        kept == SelectSeq(msgs, Kept)
    IN  [k \in DOMAIN kept |->
            [role |-> IF kept[k].role = "system" THEN "user" ELSE kept[k].role,
             content |-> kept[k].content]]

\* the params of aiService.sendMessageStream after formatMessages
StreamRequest(model, msgs, am) ==
    [model |-> model, messages |-> FormatMessages(MessageHistory(msgs, am))]

(***************************************************************************)
(* Actions of the store.                                                   *)
(***************************************************************************)
\* initialState(), and no sendMessage call yet
InitFields ==
    /\ isModelConnected = FALSE
    /\ isAIResponding = FALSE
    /\ isStreamingContent = FALSE
    /\ isThinking = FALSE
    /\ currentThinkingContent = <<>>
    /\ chatMessages = <<>>
    /\ thinking = [t \in Turns |-> NoThinking]
    /\ selectedModel = "deepseek-chat"
    /\ nextId = 1
    /\ checkPending = FALSE
    /\ pc = [t \in Turns |-> "idle"]
    /\ content = [t \in Turns |-> <<>>]
    /\ assistantMessage = [t \in Turns |-> NoMessage]
    /\ request = [t \in Turns |-> NoRequest]
    /\ frozen = [t \in Turns |-> {}]
    /\ response = [t \in Turns |-> NoResponse]
    /\ queue = [t \in Turns |-> <<>>]
    /\ chars = [t \in Turns |-> <<>>]
    /\ contentReceived = [t \in Turns |-> FALSE]
    /\ thinkingContent = [t \in Turns |-> <<>>]

\* the same, with MaxLines response lines to come
InitMemory ==
    /\ InitFields
    /\ linesLeft = MaxLines

\* the store in a browser whose localStorage holds no conversation
InitStore ==
    /\ InitMemory
    /\ storage = [key \in Keys |-> Missing]

\* checkModelConnection, up to the await of the status request
CheckModelConnection ==
    /\ ~checkPending
    /\ checkPending' = TRUE
    /\ isModelConnected' = FALSE
    /\ UNCHANGED <<isAIResponding, isStreamingContent, isThinking, currentThinkingContent,
                   chatMessages, thinking, selectedModel, storage, nextId, linesLeft,
                   turnVars, retryVars, sideVars>>

\* checkModelConnection, after the await
ConnectionChecked(connected) ==
    /\ checkPending
    /\ checkPending' = FALSE
    /\ isModelConnected' = connected
    /\ UNCHANGED <<isAIResponding, isStreamingContent, isThinking, currentThinkingContent,
                   chatMessages, thinking, selectedModel, storage, nextId, linesLeft,
                   turnVars, retryVars, sideVars>>

\* the guard of sendMessage
Rejected(text) == Trim(text) = <<>> \/ ~isModelConnected \/ isAIResponding

\* a sendMessage that saves the conversation first and appends the user
\* message after
SaveThenAppend(text, ok) ==
    IF Rejected(text)
    THEN UNCHANGED vars
    ELSE \E t \in Turns :
        /\ pc[t] = "idle"
        /\ \A u \in Turns : u < t => pc[u] # "idle"
        /\ LET userMessage == NewMessage(nextId, "user", text)
               pending == NewMessage(nextId + 1, "assistant", <<>>)
           IN  /\ chatMessages' = chatMessages \o <<userMessage, pending>>
               /\ storage' = SaveChat(storage, StorageKey(selectedModel),
                                      chatMessages, thinking, ok)
               /\ assistantMessage' = [assistantMessage EXCEPT ![t] = pending]
               /\ request' = [request EXCEPT ![t] =
                        StreamRequest(selectedModel, chatMessages', pending)]
        /\ nextId' = nextId + 2
        /\ isAIResponding' = TRUE
        /\ isStreamingContent' = FALSE
        /\ pc' = [pc EXCEPT ![t] = "awaiting"]
        /\ content' = [content EXCEPT ![t] = text]
        /\ UNCHANGED <<isModelConnected, isThinking, currentThinkingContent, thinking,
                       selectedModel, checkPending, linesLeft, response, queue, chars,
                       contentReceived, thinkingContent, frozen, retryVars, sideVars>>

\* a sendMessage that tests the flag and leaves setting it to a later task
CheckThenSetLater(text, ok) ==
    IF Rejected(text)
    THEN UNCHANGED vars
    ELSE \E t \in Turns :
        /\ pc[t] = "idle"
        /\ \A u \in Turns : u < t => pc[u] # "idle"
        /\ LET userMessage == NewMessage(nextId, "user", text)
               pending == NewMessage(nextId + 1, "assistant", <<>>)
           IN  /\ chatMessages' = chatMessages \o <<userMessage, pending>>
               /\ storage' = SaveChat(storage, StorageKey(selectedModel),
                                      Append(chatMessages, userMessage), thinking, ok)
               /\ assistantMessage' = [assistantMessage EXCEPT ![t] = pending]
               /\ request' = [request EXCEPT ![t] =
                        StreamRequest(selectedModel, chatMessages', pending)]
        /\ nextId' = nextId + 2
        /\ pc' = [pc EXCEPT ![t] = "awaiting"]
        /\ content' = [content EXCEPT ![t] = text]
        /\ UNCHANGED <<isModelConnected, isAIResponding, isStreamingContent, isThinking,
                       currentThinkingContent, thinking, selectedModel, checkPending,
                       linesLeft, response, queue, chars, contentReceived, thinkingContent,
                       frozen, retryVars, sideVars>>

\* sendMessage(content), and sendMessageStream up to the await of the request
\* (ok: whether the write of saveToStorage succeeds)
SendMessage(text, ok) ==
    IF Rejected(text)
    THEN UNCHANGED vars
    ELSE \E t \in Turns :
        /\ pc[t] = "idle"
        /\ \A u \in Turns : u < t => pc[u] # "idle"
        /\ LET userMessage == NewMessage(nextId, "user", text)
               pending == NewMessage(nextId + 1, "assistant", <<>>)
           IN  /\ chatMessages' = chatMessages \o <<userMessage, pending>>
               /\ storage' = SaveChat(storage, StorageKey(selectedModel),
                                      Append(chatMessages, userMessage), thinking, ok)
               /\ assistantMessage' = [assistantMessage EXCEPT ![t] = pending]
               /\ request' = [request EXCEPT ![t] =
                        StreamRequest(selectedModel, chatMessages', pending)]
        /\ nextId' = nextId + 2
        /\ isAIResponding' = TRUE
        /\ isStreamingContent' = FALSE
        /\ pc' = [pc EXCEPT ![t] = "awaiting"]
        /\ content' = [content EXCEPT ![t] = text]
        /\ UNCHANGED <<isModelConnected, isThinking, currentThinkingContent, thinking,
                       selectedModel, checkPending, linesLeft, response, queue, chars,
                       contentReceived, thinkingContent, frozen, retryVars, sideVars>>

\* the request of turn t is answered: sendMessageStream goes on after its
\* await, and _handleStreamResponse reads up to the first setTimeout or the end
ResponseArrives(t, r, w1, w2) ==
    /\ pc[t] = "awaiting"
    /\ response' = [response EXCEPT ![t] = r]
    /\ linesLeft' = linesLeft - Len(r.lines)
    /\ LET c == [Context(t) EXCEPT !.queue = StreamOf(r).chunks,
                                   !.ending = StreamOf(r).ending,
                                   !.isAIResponding = FALSE,
                                   !.isStreamingContent = TRUE]
       IN  Resume(t, Continue(c, t), w1, w2)
    /\ UNCHANGED <<isModelConnected, checkPending, content, request, retryVars, sideVars>>

\* the setTimeout of _addContentCharByChar fires: the next character, or the
\* return to the read loop
TimerFires(t, w1, w2) ==
    /\ pc[t] = "typing"
    /\ IF chars[t] # <<>>
       THEN Resume(t, TypeChar(Context(t)), w1, w2)
       ELSE Resume(t, Continue([Context(t) EXCEPT !.contentReceived = TRUE], t), w1, w2)
    /\ UNCHANGED <<isModelConnected, checkPending, linesLeft, content, request,
                   response, retryVars, sideVars>>

\* the steps of the store for given user texts, response lines and
\* outcomes of the writes to localStorage
StoreStep(texts, menu, writes) ==
    \/ CheckModelConnection
    \/ \E connected \in BOOLEAN : ConnectionChecked(connected)
    \/ \E text \in texts : \E ok \in writes : SendMessage(text, ok)
    \/ \E t \in Turns : \E r \in ResponsesOf(menu, linesLeft) : \E w1, w2 \in writes :
            ResponseArrives(t, r, w1, w2)
    \/ \E t \in Turns : \E w1, w2 \in writes : TimerFires(t, w1, w2)

\* every write to localStorage succeeds
NextStore == StoreStep(UserTexts, LineMenu, {TRUE})

\* texts at the limits of validateMessage, and a server that answers in
\* plain text
NextInput == StoreStep(EdgeTexts, PlainMenu, {TRUE})

\* localStorage.setItem may throw (the quota is exceeded)
NextQuota == StoreStep(UserTexts, ShortMenu, BOOLEAN)

\* lines that begin as JSON does and are none, with and without the
\* terminator token in them
Garbled == <<"{", "g">>

GarbledMenu ==
    { Event("content", <<"a">>),
      [kind |-> "badJson", text |-> Garbled],
      [kind |-> "badJson", text |-> <<"{">> \o DoneToken] }

\* a server that sends lines that fail to parse
NextGarbled == StoreStep({<<"p">>}, GarbledMenu, {TRUE})

\* a server that sends the terminator before, within or after its content
NextDone == StoreStep({<<"p">>}, DoneMenu, {TRUE})

\* the store with one more response line to come, so that a response can
\* hold content, the terminator and content again
InitDone ==
    /\ InitFields
    /\ linesLeft = MaxLines + 1
    /\ storage = [key \in Keys |-> Missing]

(***************************************************************************)
(* The storage actions, and what earlier sessions (of this or of an older  *)
(* version of the program) may have left in localStorage.                  *)
(***************************************************************************)
Item(id, role, text, time, th) ==
    [id |-> id, role |-> role, content |-> text, timestamp |-> time, thinking |-> th]

OldThinking == [exists |-> TRUE, content |-> <<"t">>, isComplete |-> TRUE, timestamp |-> 6]

StoredLists ==
    { <<>>,
      <<Item(91, "user", <<"q">>, 5, NoThinking),
        Item(92, "assistant", <<"r">>, 6, OldThinking)>>,
      <<Item(93, "user", <<"s">>, 7, NoThinking)>> }

StoredTexts ==
    {StoredText(kind, <<>>) :
        kind \in {"missing", "empty", "garbage", "object", "objectOther", "scalar", "falsy"}}
    \cup {StoredText(kind, items) : kind \in {"list", "chatData"}, items \in StoredLists}

\* the store in a browser whose localStorage holds anything
InitStorage ==
    /\ InitMemory
    /\ storage \in [Keys -> StoredTexts]

\* saveConversationToStorage()
SaveConversationToStorage(ok) ==
    /\ storage' = SaveChat(storage, StorageKey(selectedModel), chatMessages, thinking, ok)
    /\ UNCHANGED <<isModelConnected, isAIResponding, isStreamingContent, isThinking,
                   currentThinkingContent, chatMessages, thinking, selectedModel, nextId,
                   checkPending, linesLeft, turnVars, retryVars, sideVars>>

\* loadConversationFromStorage()
LoadConversationFromStorage ==
    /\ chatMessages' = LoadedMessages(storage, StorageKey(selectedModel))
    /\ UNCHANGED <<isModelConnected, isAIResponding, isStreamingContent, isThinking,
                   currentThinkingContent, thinking, selectedModel, storage, nextId,
                   checkPending, linesLeft, turnVars, retryVars, sideVars>>

\* changeModel(modelValue), up to the await of the status request; the
\* select of the chat view does the same with setSelectedModel,
\* loadConversationFromStorage and checkModelConnection
ChangeModel(modelValue) ==
    /\ selectedModel' = modelValue
    /\ chatMessages' = LoadedMessages(storage, StorageKey(modelValue))
    /\ isModelConnected' = FALSE
    /\ checkPending' = TRUE
    /\ UNCHANGED <<isAIResponding, isStreamingContent, isThinking, currentThinkingContent,
                   thinking, storage, nextId, linesLeft, turnVars, retryVars, sideVars>>

\* clearConversation()
ClearConversation ==
    /\ chatMessages' = <<>>
    /\ UNCHANGED <<isModelConnected, isAIResponding, isStreamingContent, isThinking,
                   currentThinkingContent, thinking, selectedModel, storage, nextId,
                   checkPending, linesLeft, turnVars, retryVars, sideVars>>

NextStorage ==
    \/ \E ok \in BOOLEAN : SaveConversationToStorage(ok)
    \/ LoadConversationFromStorage
    \/ \E modelValue \in Models : ChangeModel(modelValue)
    \/ ClearConversation
    \/ CheckModelConnection
    \/ \E connected \in BOOLEAN : ConnectionChecked(connected)

\* a line with a reasoning delta and a content delta
ReasonedMenu == { [kind |-> "choices", content |-> <<"b">>, reasoning |-> <<"u">>] }

\* turns, and saves and loads of the conversation between their steps
NextSession ==
    \/ \E ok \in BOOLEAN : SaveConversationToStorage(ok)
    \/ LoadConversationFromStorage
    \/ StoreStep({<<"p">>}, ReasonedMenu, {TRUE})

\* turns, and changes of the selected model between their steps
NextSwitch ==
    \/ \E modelValue \in Models : ChangeModel(modelValue)
    \/ StoreStep({<<"p">>}, ShortMenu, {TRUE})

(***************************************************************************)
(* aiService.sendMessageWithRetry.  An api.post ends in one of:            *)
(*   "content"         a response with data.content                        *)
(*   "messageContent"  a response with data.message.content only           *)
(*   "noContent"       a response whose data has neither                   *)
(*   "noData"          a response without data                             *)
(*   "status422" "status400" "status500"   an axios error with a response  *)
(*   "network"         an axios error without a response                   *)
(***************************************************************************)
RetryBaseDelay == 1000

Outcomes == {"content", "messageContent", "noContent", "noData",
             "status422", "status400", "status500", "network"}

NoError == [kind |-> "null", attempt |-> 0]
NoResult == [kind |-> "none", attempt |-> 0, error |-> NoError]

\* the try block: the response is returned, or an error is thrown
Succeeds(outcome) == outcome \in {"content", "messageContent", "noData"}

\* if (statusCode === 422) throw error
IsValidationError(outcome) == outcome = "status422"

\* !axios.isAxiosError(error) || !error.response || error.response.status >= 500
IsRetryable(outcome) == outcome \in {"noContent", "status500", "network"}

\* a delay that does not grow with the attempts
FixedDelay(n) == RetryBaseDelay

\* const delay = 1000 * retries
RetryDelay(n) == RetryBaseDelay * n

\* a catch block that never retries
ThrowAtOnce(outcome, n, max) == "throw"

\* a catch block that retries whatever the error is
RetryAnyError(outcome, n, max) == IF n < max THEN "delay" ELSE "throw"

\* the catch block, for an error that makes the count of retries n: "delay"
\* and go round the loop again, or "throw"
CatchDecision(outcome, n, max) ==
    IF IsValidationError(outcome) THEN "throw"
    ELSE IF IsRetryable(outcome) /\ n < max THEN "delay"
    ELSE "throw"

RetryParams ==
    {[model |-> m, messages |-> ms] :
        m \in {"", "deepseek-chat"},
        ms \in {<<>>, <<[role |-> "user", content |-> <<" ">>]>>,
                <<[role |-> "user", content |-> <<"p">>]>>,
                <<[role |-> "user", content |-> <<"p">>],
                  [role |-> "assistant", content |-> <<" ">>]>>}}

NoParams == [model |-> "", messages |-> <<>>]

\* the checks before the loop, without the check of the formatted list
SkipFormatCheck(p) ==
    IF p.model = "" THEN "noModel"
    ELSE IF p.messages = <<>> THEN "noMessages"
    ELSE "none"

\* the checks before the loop: the error they throw, or "none"
PreconditionError(p) ==
    IF p.model = "" THEN "noModel"
    ELSE IF p.messages = <<>> THEN "noMessages"
    ELSE IF Len(FormatMessages(p.messages)) = 0 THEN "noFormatted"
    ELSE "none"

InitRetry ==
    /\ rpc = "idle"
    /\ params = NoParams
    /\ maxRetries = 0
    /\ retries = 0
    /\ lastError = NoError
    /\ calls = 0
    /\ delays = <<>>
    /\ outcomes = <<>>
    /\ result = NoResult

\* sendMessageWithRetry(params, max), up to the await of the first api.post
SendMessageWithRetry(p, max) ==
    /\ rpc = "idle"
    /\ params' = p
    /\ maxRetries' = max
    /\ IF PreconditionError(p) # "none"
       THEN /\ rpc' = "thrown"
            /\ result' = [kind |-> "thrown", attempt |-> 0,
                          error |-> [kind |-> PreconditionError(p), attempt |-> 0]]
            /\ calls' = calls
       ELSE IF max = 0
       THEN /\ rpc' = "thrown"
            /\ result' = [kind |-> "thrown", attempt |-> 0, error |-> lastError]
            /\ calls' = calls
       ELSE /\ rpc' = "posting"
            /\ result' = result
            /\ calls' = calls + 1
    /\ UNCHANGED <<retries, lastError, delays, outcomes, storeVars, turnVars, sideVars>>

\* the api.post in flight ends
PostSettles(outcome) ==
    /\ rpc = "posting"
    /\ outcomes' = Append(outcomes, outcome)
    /\ IF Succeeds(outcome)
       THEN /\ rpc' = "returned"
            /\ result' = [kind |-> "returned", attempt |-> calls, error |-> NoError]
            /\ UNCHANGED <<retries, lastError, delays>>
       ELSE LET error == [kind |-> outcome, attempt |-> calls]
                counted == IF IsValidationError(outcome) \/ ~IsRetryable(outcome)
                           THEN retries ELSE retries + 1
            IN  /\ lastError' = error
                /\ retries' = counted
                /\ IF CatchDecision(outcome, retries + 1, maxRetries) = "delay"
                   THEN /\ rpc' = "waiting"
                        /\ delays' = Append(delays, RetryDelay(retries + 1))
                        /\ result' = result
                   ELSE /\ rpc' = "thrown"
                        /\ delays' = delays
                        /\ result' = [kind |-> "thrown", attempt |-> calls, error |-> error]
    /\ UNCHANGED <<params, maxRetries, calls, storeVars, turnVars, sideVars>>

\* the setTimeout of the delay fires: the loop goes round, the next api.post
DelayElapsed ==
    /\ rpc = "waiting"
    /\ rpc' = "posting"
    /\ calls' = calls + 1
    /\ UNCHANGED <<params, maxRetries, retries, lastError, delays, outcomes, result, storeVars,
                   turnVars, sideVars>>

NextRetry ==
    \/ \E p \in RetryParams : \E max \in 0..MaxAttempts : SendMessageWithRetry(p, max)
    \/ \E outcome \in Outcomes : PostSettles(outcome)
    \/ DelayElapsed

\* no call of formatMessages yet
NotCalled == <<[role |-> "none", content |-> <<>>]>>

InitFormat ==
    /\ formatInput = <<>>
    /\ formatted = NotCalled

NoLine == [kind |-> "none"]

InitDecoder ==
    /\ line = NoLine
    /\ emitted = <<>>

NoSession == 0

\* state() of the terminal store, and no request in flight
InitTerminal ==
    /\ connectionStatus = "disconnected"
    /\ sessionId = NoSession
    /\ deviceAddress = <<>>
    /\ canCancelConnection = FALSE
    /\ terminalOutput = <<>>
    /\ commandHistory = <<>>
    /\ historyIndex = -1
    /\ connecting = 0
    /\ cancelling = 0
    /\ disconnecting = 0
    /\ executing = 0
    /\ connectCalls = 0
    /\ typed = 0
    /\ nextSession = 1

InitSide == InitFormat /\ InitDecoder /\ InitTerminal

\* entries of a list given to formatMessages: role "" is a missing role,
\* "tool" a role that is none of user, assistant and system, and
\* [role |-> "malformed"] an entry that is no object (null)
FormatRoles == {"user", "assistant", "system", "", "tool"}

FormatContents == {<<"p">>, <<" ", "p", " ">>, <<" ">>, <<>>}

FormatEntries ==
    {[role |-> r, content |-> c] : r \in FormatRoles, c \in FormatContents}
    \cup {[role |-> "malformed", content |-> <<>>]}

\* formatMessages(messages)
FormatCall(messages) ==
    /\ formatInput' = messages
    /\ formatted' = FormatMessages(messages)
    /\ UNCHANGED <<storeVars, turnVars, retryVars, decoderVars, terminalVars>>

NextFormat == \E messages \in SeqsUpTo(FormatEntries, MaxMessages) : FormatCall(messages)

\* payloads of n code units: letters, and letters around one character
\* outside the basic plane (a surrogate pair, as U+1F914 is)
Letters(n) == [k \in 1..n |-> "x"]

AroundPair(n, k) == Letters(k) \o <<"hs", "ls">> \o Letters(n - k - 2)

Payloads ==
    {Letters(n) : n \in 1..MaxPayload}
    \cup UNION {{AroundPair(n, k) : k \in 0..(n - 2)} : n \in 2..MaxPayload}

DecoderLines ==
    {Event("content", text) : text \in Payloads}
    \cup {[kind |-> "plain", text |-> text] : text \in Payloads}

\* processLine(line), and the read of what it has enqueued
DecodeLine(l) ==
    /\ line' = l
    /\ emitted' = ProcessLine(l)
    /\ UNCHANGED <<storeVars, turnVars, retryVars, formatVars, terminalVars>>

NextDecoder == \E l \in DecoderLines : DecodeLine(l)

(***************************************************************************)
(* The terminal store (frontend/src/stores/terminal.ts).  Each action is   *)
(* one run of a handler from one await to the next; a request in flight is *)
(* counted, and settles in a later step.  A line of terminalOutput is      *)
(* modelled by what it reports.  The status lines of the interval timer of *)
(* connectToDevice are left out: the timer reads connectionStatus and      *)
(* writes terminalOutput only.                                             *)
(***************************************************************************)
HistoryLimit == 50

notTerminal == <<storeVars, turnVars, retryVars, formatVars, decoderVars>>

\* the view binds its address field to deviceAddress
EnterAddress(address) ==
    /\ deviceAddress' = address
    /\ UNCHANGED <<connectionStatus, sessionId, canCancelConnection, terminalOutput,
                   commandHistory, historyIndex, connecting, cancelling, disconnecting,
                   executing, connectCalls, typed, nextSession, notTerminal>>

\* disconnect(), up to the await of terminalService.disconnect
Disconnect ==
    /\ disconnecting < MaxInFlight
    /\ IF connectionStatus # "connected" \/ sessionId = NoSession
       THEN disconnecting' = disconnecting
       ELSE disconnecting' = disconnecting + 1
    /\ UNCHANGED <<connectionStatus, sessionId, deviceAddress, canCancelConnection,
                   terminalOutput, commandHistory, historyIndex, connecting, cancelling,
                   executing, connectCalls, typed, nextSession, notTerminal>>

\* terminalService.disconnect returns (ok) or throws, and the finally block
DisconnectSettles(ok) ==
    /\ disconnecting > 0
    /\ disconnecting' = disconnecting - 1
    /\ terminalOutput' = Append(terminalOutput, IF ok THEN "disconnected" ELSE "disconnect error")
    /\ connectionStatus' = "disconnected"
    /\ sessionId' = NoSession
    /\ UNCHANGED <<deviceAddress, canCancelConnection, commandHistory, historyIndex,
                   connecting, cancelling, executing, connectCalls, typed, nextSession,
                   notTerminal>>

\* connectToDevice(), up to the await of terminalService.connect
ConnectToDevice ==
    /\ connectCalls < MaxCalls
    /\ connectCalls' = connectCalls + 1
    /\ IF connectionStatus = "connected"
       THEN /\ disconnecting' = IF sessionId = NoSession \/ disconnecting >= MaxInFlight
                                THEN disconnecting ELSE disconnecting + 1
            /\ UNCHANGED <<connectionStatus, canCancelConnection, terminalOutput, connecting>>
       ELSE IF deviceAddress = <<>>
       THEN /\ terminalOutput' = Append(terminalOutput, "address is empty")
            /\ connectionStatus' = "error"
            /\ UNCHANGED <<canCancelConnection, connecting, disconnecting>>
       ELSE /\ connectionStatus' = "connecting"
            /\ canCancelConnection' = TRUE
            /\ terminalOutput' = terminalOutput \o <<"connecting", "be patient", "may cancel">>
            /\ connecting' = connecting + 1
            /\ disconnecting' = disconnecting
    /\ UNCHANGED <<sessionId, deviceAddress, commandHistory, historyIndex, cancelling,
                   executing, typed, nextSession, notTerminal>>

ConnectOutcomes == {"success", "refused", "thrown"}

\* terminalService.connect returns with data.success, returns without, or
\* throws
ConnectSettles(outcome) ==
    /\ connecting > 0
    /\ connecting' = connecting - 1
    /\ canCancelConnection' = FALSE
    /\ IF outcome = "success"
       THEN /\ sessionId' = nextSession
            /\ nextSession' = nextSession + 1
            /\ connectionStatus' = "connected"
            /\ terminalOutput' = Append(terminalOutput, "connected")
       ELSE /\ connectionStatus' = "error"
            /\ terminalOutput' = Append(terminalOutput,
                    IF outcome = "refused" THEN "connection failed" ELSE "connection error")
            /\ UNCHANGED <<sessionId, nextSession>>
    /\ UNCHANGED <<deviceAddress, commandHistory, historyIndex, cancelling, disconnecting,
                   executing, connectCalls, typed, notTerminal>>

\* cancelConnection(), up to the await of terminalService.cancelConnection
CancelConnection ==
    /\ cancelling < MaxInFlight
    /\ IF connectionStatus # "connecting"
       THEN cancelling' = cancelling
       ELSE cancelling' = cancelling + 1
    /\ UNCHANGED <<connectionStatus, sessionId, deviceAddress, canCancelConnection,
                   terminalOutput, commandHistory, historyIndex, connecting, disconnecting,
                   executing, connectCalls, typed, nextSession, notTerminal>>

\* terminalService.cancelConnection returns (ok) or throws, and the finally
\* block
CancelSettles(ok) ==
    /\ cancelling > 0
    /\ cancelling' = cancelling - 1
    /\ terminalOutput' = IF ok THEN Append(terminalOutput, "cancelled") ELSE terminalOutput
    /\ connectionStatus' = "disconnected"
    /\ canCancelConnection' = FALSE
    /\ UNCHANGED <<sessionId, deviceAddress, commandHistory, historyIndex, connecting,
                   disconnecting, executing, connectCalls, typed, nextSession, notTerminal>>

\* unshift without the pop
UnshiftOnly(history, cmd) == <<cmd>> \o history

\* commandHistory.unshift(cmd) and the pop that follows it
Unshift(history, cmd) ==
    LET longer == <<cmd>> \o history
    IN  IF Len(longer) > HistoryLimit THEN SubSeq(longer, 1, Len(longer) - 1) ELSE longer

\* executeCommand(cmd), up to the await of terminalService.execute
ExecuteCommand(cmd) ==
    /\ typed < MaxCommands
    /\ executing < MaxInFlight
    /\ IF sessionId = NoSession \/ connectionStatus # "connected"
       THEN UNCHANGED <<commandHistory, historyIndex, terminalOutput, executing, typed>>
       ELSE /\ commandHistory' = Unshift(commandHistory, cmd)
            /\ historyIndex' = -1
            /\ terminalOutput' = Append(terminalOutput, <<">", cmd>>)
            /\ executing' = executing + 1
            /\ typed' = typed + 1
    /\ UNCHANGED <<connectionStatus, sessionId, deviceAddress, canCancelConnection,
                   connecting, cancelling, disconnecting, connectCalls, nextSession,
                   notTerminal>>

ExecuteOutcomes == {"output", "error", "expired", "thrown"}

\* terminalService.execute returns output, an error, the error of a session
\* that is gone, or throws
ExecuteSettles(outcome) ==
    /\ executing > 0
    /\ executing' = executing - 1
    /\ terminalOutput' =
          CASE outcome = "output" -> Append(terminalOutput, "output")
            [] outcome = "error" -> Append(terminalOutput, "error output")
            [] outcome = "expired" -> terminalOutput \o <<"error output", "session is gone">>
            [] outcome = "thrown" -> Append(terminalOutput, "execute error")
    /\ IF outcome = "expired"
       THEN connectionStatus' = "disconnected" /\ sessionId' = NoSession
       ELSE UNCHANGED <<connectionStatus, sessionId>>
    /\ UNCHANGED <<deviceAddress, canCancelConnection, commandHistory, historyIndex,
                   connecting, cancelling, disconnecting, connectCalls, typed, nextSession,
                   notTerminal>>

\* getPreviousCommand()
GetPreviousCommand ==
    /\ IF Len(commandHistory) = 0
       THEN historyIndex' = historyIndex
       ELSE historyIndex' = Min(historyIndex + 1, Len(commandHistory) - 1)
    /\ UNCHANGED <<connectionStatus, sessionId, deviceAddress, canCancelConnection,
                   terminalOutput, commandHistory, connecting, cancelling, disconnecting,
                   executing, connectCalls, typed, nextSession, notTerminal>>

\* getNextCommand()
GetNextCommand ==
    /\ IF historyIndex <= 0
       THEN historyIndex' = -1
       ELSE historyIndex' = historyIndex - 1
    /\ UNCHANGED <<connectionStatus, sessionId, deviceAddress, canCancelConnection,
                   terminalOutput, commandHistory, connecting, cancelling, disconnecting,
                   executing, connectCalls, typed, nextSession, notTerminal>>

\* the calls of the connection, with commands typed between them
NextTerminal ==
    \/ \E address \in {<<>>, <<"r1">>} : EnterAddress(address)
    \/ ConnectToDevice
    \/ \E outcome \in ConnectOutcomes : ConnectSettles(outcome)
    \/ CancelConnection
    \/ \E ok \in BOOLEAN : CancelSettles(ok)
    \/ Disconnect
    \/ \E ok \in BOOLEAN : DisconnectSettles(ok)
    \/ /\ typed < MaxCalls
       /\ ExecuteCommand(typed + 1)
    \/ \E outcome \in {"output", "expired"} : ExecuteSettles(outcome)

\* one connection, and commands typed one after the other (the k-th
\* command typed is named k), with the walks through the history
NextHistory ==
    \/ EnterAddress(<<"r1">>)
    \/ /\ connectCalls = 0
       /\ ConnectToDevice
    \/ ConnectSettles("success")
    \/ /\ executing = 0
       /\ ExecuteCommand(typed + 1)
    \/ \E outcome \in {"output", "expired"} : ExecuteSettles(outcome)
    \/ GetPreviousCommand
    \/ GetNextCommand

Init == InitStore /\ InitRetry /\ InitSide

Next == NextStore

Spec == Init /\ [][Next]_vars

SpecRetry == Init /\ [][NextRetry]_vars

SpecInput == Init /\ [][NextInput]_vars

SpecQuota == Init /\ [][NextQuota]_vars

InitStored == InitStorage /\ InitRetry /\ InitSide

SpecStorage == InitStored /\ [][NextStorage]_vars

SpecSession == Init /\ [][NextSession]_vars

\* a task of a turn that is ready: its request has ended (api.post has a
\* timeout), or the setTimeout of _addContentCharByChar has fired
TurnTask ==
    \E t \in Turns :
        \/ /\ pc[t] = "awaiting"
           /\ \E r \in ResponsesOf(ShortMenu, linesLeft) : ResponseArrives(t, r, TRUE, TRUE)
        \/ /\ pc[t] = "typing"
           /\ TimerFires(t, TRUE, TRUE)

\* the event loop runs a task that is ready
Fairness == WF_vars(TurnTask)

NextLive == StoreStep({<<"p">>}, ShortMenu, {TRUE})

SpecLive == Init /\ [][NextLive]_vars /\ Fairness

InitAroundDone == InitDone /\ InitRetry /\ InitSide

SpecFormat == Init /\ [][NextFormat]_vars

SpecDecoder == Init /\ [][NextDecoder]_vars

SpecGarbled == Init /\ [][NextGarbled]_vars

SpecSwitch == Init /\ [][NextSwitch]_vars

SpecTerminal == Init /\ [][NextTerminal]_vars

SpecHistory == Init /\ [][NextHistory]_vars

SpecDone == InitAroundDone /\ [][NextDone]_vars

(***************************************************************************)
(* Vocabulary of the properties.                                           *)
(***************************************************************************)
InFlight(t) == pc[t] \in NonTerminal

Ended(t) == pc[t] \in Terminal

\* the pending assistant message of turn t, or a copy of it, is in the list
PendingIn(msgs, t) == \E k \in DOMAIN msgs : msgs[k].id = assistantMessage[t].id

PendingOf(t) == chatMessages[FindIndexById(chatMessages, assistantMessage[t].id)]

IsErrorMessage(m) ==
    m.role = "assistant" /\ m.content # <<>> /\ Head(m.content) = Head(ErrorText(<<>>))

UserCount(msgs) == Cardinality({k \in DOMAIN msgs : msgs[k].role = "user"})

\* the thinking and the content text a line carries
LineThinking(l) ==
    CASE l.kind = "event" /\ l.type = "thinking" -> l.text
      [] l.kind = "choices" -> l.reasoning
      [] OTHER -> <<>>

LineContent(l) ==
    CASE l.kind = "event" /\ l.type = "content" -> l.text
      [] l.kind = "choices" -> l.content
      [] OTHER -> <<>>

IsErrorEvent(l) == l.kind = "event" /\ l.type = "error" /\ l.text # <<>>

\* a text that holds no terminator token and starts with no marker
MarkerFree(s) ==
    ~Includes(s, DoneToken) /\ ~StartsWith(s, ErrorMarker) /\ ~StartsWith(s, ThinkingMarker)

\* a line that carries thinking or content and nothing else
CarriesText(l) ==
    /\ l.kind = "choices" \/ (l.kind = "event" /\ l.type \in {"thinking", "content"})
    /\ LineThinking(l) \o LineContent(l) # <<>>
    /\ MarkerFree(LineThinking(l))
    /\ MarkerFree(LineContent(l))

Lines(t) == response[t].lines

AllThinking(t) == Concat([k \in DOMAIN Lines(t) |-> LineThinking(Lines(t)[k])])

AllContent(t) == Concat([k \in DOMAIN Lines(t) |-> LineContent(Lines(t)[k])])

\* the stream of turn t closed after lines of content events only
ContentOnly(t) ==
    /\ response[t].kind = "text"
    /\ Lines(t) # <<>>
    /\ \A k \in DOMAIN Lines(t) :
          Lines(t)[k].kind = "event" /\ Lines(t)[k].type = "content" /\ Lines(t)[k].text # <<>>

\* the stream of turn t closed and held no content and no error event
NoContentObserved(t) ==
    /\ response[t].kind = "text"
    /\ \A k \in DOMAIN Lines(t) :
          \/ Lines(t)[k].kind = "doneLine"
          \/ Lines(t)[k].kind = "event" /\ Lines(t)[k].type = "thinking"
                /\ MarkerFree(Lines(t)[k].text)

\* the stream of turn t closed after thinking events only, at least one
ThinkingOnly(t) ==
    /\ NoContentObserved(t)
    /\ \E k \in DOMAIN Lines(t) : LineThinking(Lines(t)[k]) # <<>>

\* an error event arrived in turn t
ErrorEventArrived(t) ==
    \/ response[t].kind = "failed"
    \/ response[t].kind = "text" /\ \E k \in DOMAIN Lines(t) : IsErrorEvent(Lines(t)[k])

\* the stream of turn t closed after thinking and then content: every line
\* carries thinking or content, no thinking comes after content, and there
\* is some of each
ThinkingThenContent(t) ==
    /\ response[t].kind = "text"
    /\ \A k \in DOMAIN Lines(t) : CarriesText(Lines(t)[k])
    /\ \A j, k \in DOMAIN Lines(t) :
          j < k /\ LineContent(Lines(t)[j]) # <<>> => LineThinking(Lines(t)[k]) = <<>>
    /\ AllThinking(t) # <<>>
    /\ AllContent(t) # <<>>

ThinkingCompleted(t) ==
    /\ pc[t] = "success"
    /\ PendingIn(chatMessages, t)
    /\ PendingOf(t).th = t
    /\ thinking[t].exists
    /\ thinking[t].isComplete
    /\ thinking[t].content = AllThinking(t)

(***************************************************************************)
(* C1: while a turn is in flight (Awaiting, Thinking or Streaming), no     *)
(* step of the store starts a second turn or appends a user message; and   *)
(* once no turn is in flight, a sendMessage of a non-blank text to a       *)
(* connected store is accepted again.                                      *)
(***************************************************************************)
C1_SingleFlight ==
    /\ []((\A t \in Turns : ~InFlight(t)) /\ isModelConnected => ~Rejected(<<"p">>))
    /\ [][(\E t \in Turns : InFlight(t)) =>
            /\ \A u \in Turns : pc[u] = "idle" => pc'[u] = "idle"
            /\ UserCount(chatMessages') = UserCount(chatMessages)]_vars

(***************************************************************************)
(* C2: in every reachable state at most one assistant message of           *)
(* chatMessages is open, that is, the pending message of a turn in flight. *)
(***************************************************************************)
OpenMessages ==
    {k \in DOMAIN chatMessages : \E t \in Turns : InFlight(t) /\ chatMessages[k].id = assistantMessage[t].id}

C2_AtMostOneOpenMessage == Cardinality(OpenMessages) <= 1

(***************************************************************************)
(* C3: when a turn whose stream carried content events only has ended with *)
(* its message kept, the content of that message is the concatenation of   *)
(* the content texts, whatever the texts are.                              *)
(***************************************************************************)
C3_ContentIsConcatenation ==
    \A t \in Turns :
        pc[t] = "success" /\ ContentOnly(t) =>
            PendingIn(chatMessages, t) /\ PendingOf(t).content = AllContent(t)

(***************************************************************************)
(* C4: when the stream of a turn closed with no content event observed,    *)
(* with or without thinking events, the turn ended in Terminal-Error, the  *)
(* pending message is not in chatMessages and an error message is.         *)
(***************************************************************************)
C4_NoContentDiscardsPending ==
    \A t \in Turns :
        Ended(t) /\ NoContentObserved(t) =>
            /\ pc[t] = "error"
            /\ ~PendingIn(chatMessages, t)
            /\ \E k \in DOMAIN chatMessages : IsErrorMessage(chatMessages[k])

(***************************************************************************)
(* C5: when a turn ended in Terminal-Error after content had been applied  *)
(* to its pending message, that message is neither in chatMessages nor in  *)
(* the conversation saved to storage.                                      *)
(***************************************************************************)
C5_PartialContentNotKept ==
    \A t \in Turns :
        pc[t] = "error" /\ assistantMessage[t].content # <<>> =>
            /\ ~PendingIn(chatMessages, t)
            /\ ~PendingIn(storage[StorageKey(selectedModel)].messages, t)

(***************************************************************************)
(* C6: a turn in which an error event arrived ends in Terminal-Error, with *)
(* its pending message replaced by an error message; it never ends in      *)
(* Terminal-Success.                                                       *)
(***************************************************************************)
C6_ErrorEventEndsInError ==
    \A t \in Turns :
        Ended(t) /\ ErrorEventArrived(t) =>
            /\ pc[t] = "error"
            /\ ~PendingIn(chatMessages, t)
            /\ \E k \in DOMAIN chatMessages : IsErrorMessage(chatMessages[k])

(***************************************************************************)
(* C7, as claimed: when the stream of a turn carried thinking and then at  *)
(* least one content chunk, the turn ended in Terminal-Success and the     *)
(* thinking of its message is complete and is the concatenation of the     *)
(* thinking texts in arrival order.                                        *)
(***************************************************************************)
C7_ThinkingThenContent_Claimed ==
    \A t \in Turns : Ended(t) /\ ThinkingThenContent(t) => ThinkingCompleted(t)

(***************************************************************************)
(* C7, amended: the same, for a turn whose content is not blank (a turn    *)
(* whose content is all white space ends in Terminal-Error).               *)
(***************************************************************************)
C7_ThinkingThenContent ==
    \A t \in Turns :
        Ended(t) /\ ThinkingThenContent(t) /\ Trim(AllContent(t)) # <<>> =>
            ThinkingCompleted(t)

C7_Witness ==
    \E t \in Turns :
        /\ Ended(t) /\ ThinkingThenContent(t) /\ Trim(AllContent(t)) # <<>>
        /\ Len(Lines(t)) = 2
        /\ Len(AllThinking(t)) = 2
        /\ ThinkingCompleted(t)

(***************************************************************************)
(* C8: when the stream of a turn closed after thinking events and no       *)
(* content, the turn ended in Terminal-Error and the thinking of its       *)
(* message is still not complete.                                          *)
(***************************************************************************)
C8_ThinkingOnlyStaysIncomplete ==
    \A t \in Turns :
        Ended(t) /\ ThinkingOnly(t) =>
            /\ pc[t] = "error"
            /\ thinking[t].exists
            /\ ~thinking[t].isComplete

(***************************************************************************)
(* C9: when sendMessageWithRetry has returned after attempts 1..k failed   *)
(* with a server or network error and attempt k+1 succeeded, it made       *)
(* exactly k+1 calls and waited exactly k times, the i-th time i * 1000    *)
(* ms.                                                                     *)
(***************************************************************************)
FailedThenSucceeded ==
    /\ rpc = "returned"
    /\ outcomes # <<>>
    /\ \A i \in 1..(Len(outcomes) - 1) : outcomes[i] \in {"status500", "network"}
    /\ outcomes[Len(outcomes)] \in {"content", "messageContent"}

C9_RetryUntilSuccess ==
    FailedThenSucceeded =>
        /\ calls = Len(outcomes)
        /\ calls <= maxRetries
        /\ result = [kind |-> "returned", attempt |-> Len(outcomes), error |-> NoError]
        /\ delays = [i \in 1..(Len(outcomes) - 1) |-> i * 1000]

C9_Witness ==
    /\ FailedThenSucceeded
    /\ maxRetries = 3
    /\ outcomes = <<"status500", "status500", "content">>
    /\ delays = <<1000, 2000>>

(***************************************************************************)
(* C10: an attempt that fails with status 422 is the last one: the call    *)
(* throws that error at once, with no further api.post and no delay after  *)
(* it, on whichever attempt it happens.                                    *)
(***************************************************************************)
C10_ValidationNeverRetried ==
    \A j \in DOMAIN outcomes :
        outcomes[j] = "status422" =>
            /\ j = Len(outcomes)
            /\ rpc = "thrown"
            /\ result = [kind |-> "thrown", attempt |-> j,
                         error |-> [kind |-> "status422", attempt |-> j]]
            /\ calls = j
            /\ Len(delays) = j - 1

C10_Witness ==
    /\ rpc = "thrown"
    /\ maxRetries = 3
    /\ outcomes = <<"network", "status422">>
    /\ calls = 2
    /\ delays = <<1000>>

(***************************************************************************)
(* C11.  sendMessageWithRetry retries only server (5xx) and network        *)
(* failures: an attempt that ends in a malformed response (no content and  *)
(* no message.content to repair it from) or in a 4xx status other than 422 *)
(* is the last attempt, and its error is thrown.                           *)
(***************************************************************************)
SurfacedAtOnce == {"noContent", "status400"}

C11_OnlyServerAndNetworkRetried ==
    \A k \in DOMAIN outcomes :
        outcomes[k] \in SurfacedAtOnce
            => /\ k = Len(outcomes)
               /\ calls = k
               /\ rpc = "thrown"
               /\ result.kind = "thrown"

(***************************************************************************)
(* C12.  When every attempt fails with a server or network error, the call *)
(* ends after exactly maxRetries api.post calls and maxRetries - 1 delays, *)
(* and throws the error of the last attempt itself.  No call ever makes    *)
(* more than maxRetries attempts.                                          *)
(***************************************************************************)
ServerOrNetwork == {"status500", "network"}

EveryAttemptFailed ==
    /\ outcomes # <<>>
    /\ \A k \in DOMAIN outcomes : outcomes[k] \in ServerOrNetwork

C12_ExhaustedRetriesThrowLastError ==
    /\ calls <= maxRetries
    /\ (rpc = "thrown" /\ EveryAttemptFailed)
            => /\ calls = maxRetries
               /\ Len(outcomes) = maxRetries
               /\ Len(delays) = maxRetries - 1
               /\ result.kind = "thrown"
               /\ result.error = lastError
               /\ result.error = [kind |-> outcomes[Len(outcomes)], attempt |-> maxRetries]

C12_Witness ==
    /\ rpc = "thrown"
    /\ maxRetries = MaxAttempts
    /\ EveryAttemptFailed
    /\ outcomes[1] = "status500"
    /\ outcomes[Len(outcomes)] = "network"
    /\ calls = MaxAttempts

(***************************************************************************)
(* C13.  A call without a model, with an empty message list, or with a     *)
(* list whose messages all have blank content (formatting drops them all)  *)
(* throws before the loop: no api.post is made.                            *)
(***************************************************************************)
BlankMessage(m) == m.role # "malformed" /\ m.content # <<>> /\ Trim(m.content) = <<>>

FormatsToNothing(messages) == \A k \in DOMAIN messages : BlankMessage(messages[k])

PreconditionViolated(p) ==
    p.model = "" \/ p.messages = <<>> \/ FormatsToNothing(p.messages)

C13_PreconditionsBeforeAnyCall ==
    (rpc # "idle" /\ PreconditionViolated(params))
        => /\ rpc = "thrown"
           /\ calls = 0
           /\ outcomes = <<>>
           /\ delays = <<>>
           /\ result.kind = "thrown"
           /\ result.attempt = 0
           /\ result.error.kind \in {"noModel", "noMessages", "noFormatted"}

C13_Witness ==
    /\ rpc = "thrown"
    /\ params.model # ""
    /\ params.messages # <<>>
    /\ FormatsToNothing(params.messages)
    /\ maxRetries = MaxAttempts
    /\ calls = 0
    /\ result.error.kind = "noFormatted"

(***************************************************************************)
(* C14.  Round trip: in every state, saving the conversation under the     *)
(* selected model's key (the write succeeding) and loading it again gives  *)
(* a list of the same length whose messages have, in order, the same id,   *)
(* role, content, timestamp and thinking sub-record.                       *)
(***************************************************************************)
SameMessages(a, b) ==
    /\ Len(a) = Len(b)
    /\ \A k \in DOMAIN a :
        /\ a[k].id = b[k].id
        /\ a[k].role = b[k].role
        /\ a[k].content = b[k].content
        /\ a[k].timestamp = b[k].timestamp
        /\ ThinkingOf(a[k], thinking) = ThinkingOf(b[k], thinking)

SavedThenLoaded ==
    LET key == StorageKey(selectedModel) IN
    LoadedMessages(SaveChat(storage, key, chatMessages, thinking, TRUE), key)

HoldsMessages(text) == text.kind \in {"list", "chatData"}

C15_LoadToleratesShapes ==
    \A key \in Keys :
        LoadedMessages(storage, key) =
            IF HoldsMessages(storage[key]) THEN Deserialize(storage[key].messages) ELSE <<>>

\* the list on screen was loaded from a bare list, the other key holds
\* something that is no conversation
C15_Witness ==
    /\ storage[StorageKey(selectedModel)].kind = "list"
    /\ chatMessages # <<>>
    /\ chatMessages = Deserialize(storage[StorageKey(selectedModel)].messages)
    /\ \E key \in Keys : storage[key].kind \in {"garbage", "scalar", "object"}

(***************************************************************************)
(* C16.  The step that ends a turn, in success or in error, saves the      *)
(* conversation: after it the text under the selected model's key is the   *)
(* whole current list, or, when the writes failed, localStorage is what it *)
(* was before the step; either way the turn is over and the flags are      *)
(* reset.                                                                  *)
(***************************************************************************)
TurnCompletes(t) == pc[t] \in NonTerminal /\ pc'[t] \in Terminal

StoredFor(store, model) == LoadedMessages(store, StorageKey(model))

C17_PartitionedByModel ==
    [][/\ \A model \in Models \ {selectedModel} :
            storage'[StorageKey(model)] = storage[StorageKey(model)]
       /\ selectedModel' # selectedModel =>
            chatMessages' = StoredFor(storage', selectedModel')
       /\ (selectedModel' = selectedModel /\ chatMessages' \notin {chatMessages, <<>>}) =>
            chatMessages' = StoredFor(storage, selectedModel)]_vars

\* the other model is selected and shows its own conversation, while the
\* first model's conversation, saved as an object, is another one
C17_Witness ==
    /\ selectedModel = "qwen"
    /\ chatMessages # <<>>
    /\ chatMessages = StoredFor(storage, "qwen")
    /\ storage[StorageKey("deepseek-chat")].kind = "chatData"
    /\ StoredFor(storage, "deepseek-chat") # <<>>
    /\ StoredFor(storage, "deepseek-chat") # chatMessages

(***************************************************************************)
(* C18.  A text that validateMessage refuses (empty, blank, or longer than *)
(* MaxMessageLength after trimming) is never accepted by sendMessage: no   *)
(* turn runs with such a text and no user message holds one.               *)
(***************************************************************************)
C18_InvalidTextRejected ==
    /\ \A t \in Turns : pc[t] # "idle" => ValidateMessage(content[t])
    /\ \A k \in DOMAIN chatMessages :
            chatMessages[k].role = "user" => ValidateMessage(chatMessages[k].content)

(***************************************************************************)
(* C19.  A stream of one line that is the text of an internal exception    *)
(* gives one error chunk that does not hold that text; the turn ends in    *)
(* Terminal-Error, its pending message is discarded, and no message shows  *)
(* the exception text.                                                     *)
(***************************************************************************)
OnlySignature(t) == response[t].kind = "text" /\ response[t].lines =
                        <<[kind |-> "plain", text |-> ExceptionSignature]>>

C19_ExceptionSignatureBecomesError ==
    \A t \in Turns :
        (Ended(t) /\ OnlySignature(t)) =>
            /\ Len(StreamOf(response[t]).chunks) = 1
            /\ StartsWith(StreamOf(response[t]).chunks[1], ErrorMarker)
            /\ ~Includes(StreamOf(response[t]).chunks[1], ExceptionSignature)
            /\ pc[t] = "error"
            /\ ~PendingIn(chatMessages, t)
            /\ \A k \in DOMAIN chatMessages :
                    ~Includes(chatMessages[k].content, ExceptionSignature)

(***************************************************************************)
(* C20.  When no turn is in flight, chatMessages holds two messages for    *)
(* every accepted sendMessage: its user message, followed by one assistant *)
(* message (the response or one error message).                            *)
(***************************************************************************)
Accepted == {t \in Turns : pc[t] # "idle"}

C20_TwoMessagesPerTurn ==
    (\A t \in Turns : ~InFlight(t)) =>
        /\ Len(chatMessages) = 2 * Cardinality(Accepted)
        /\ \A k \in DOMAIN chatMessages :
                chatMessages[k].role = IF k % 2 = 1 THEN "user" ELSE "assistant"

(***************************************************************************)
(* C21.  In every state in which the pending message of a turn has         *)
(* received a content character (the turn is typing, or has ended with its *)
(* message kept), the thinking sub-record of that message, if there is     *)
(* one, is complete and the isThinking flag is false.                      *)
(***************************************************************************)
HasContentCharacter(t) == pc[t] \in {"typing", "success"}

C21_StreamingCompletesThinking ==
    \A t \in Turns :
        HasContentCharacter(t) =>
            /\ thinking[t].exists => thinking[t].isComplete
            /\ ~isThinking

(***************************************************************************)
(* C22.  When the stream of a turn held content, then the terminator, the  *)
(* turn ended in Terminal-Success with the content that came before the    *)
(* terminator: what the stream held after the terminator changed neither   *)
(* the content nor the thinking of the message.                            *)
(***************************************************************************)
IsContentEvent(l) == l.kind = "event" /\ l.type = "content" /\ MarkerFree(l.text)

\* the lines of turn t are content events and terminator lines, and line d
\* is the first terminator line, with content before it
DoneAfterContent(t, d) ==
    /\ response[t].kind = "text"
    /\ \A k \in DOMAIN Lines(t) : IsContentEvent(Lines(t)[k]) \/ Lines(t)[k].kind = "doneLine"
    /\ d \in DOMAIN Lines(t)
    /\ Lines(t)[d].kind = "doneLine"
    /\ \A k \in 1..(d - 1) : Lines(t)[k].kind # "doneLine"
    /\ d > 1

ContentBefore(t, d) == Concat([k \in 1..(d - 1) |-> LineContent(Lines(t)[k])])

C22_TerminalIsAbsorbing ==
    \A t \in Turns : \A d \in 1..(MaxLines + 1) :
        (Ended(t) /\ DoneAfterContent(t, d)) =>
            /\ pc[t] = "success"
            /\ PendingIn(chatMessages, t)
            /\ PendingOf(t).content = ContentBefore(t, d)
            /\ ~thinking[t].exists

(***************************************************************************)
(* C23.  When the stream of a turn was one chunk that holds the terminator *)
(* token within other text, the text around the token was appended as      *)
(* content, without the token: the turn ended in Terminal-Success and the  *)
(* content of its message is that text.                                    *)
(***************************************************************************)
RECURSIVE StripTerminator(_)
StripTerminator(s) ==
    IF s = <<>> THEN <<>>
    ELSE IF StartsWith(s, DoneToken) THEN StripTerminator(Substring(s, Len(DoneToken)))
    ELSE <<Head(s)>> \o StripTerminator(Tail(s))

TerminatorWithinText(t) ==
    /\ response[t].kind = "text"
    /\ Len(Lines(t)) = 1
    /\ Lines(t)[1].kind \in {"event", "plain"}
    /\ Lines(t)[1].text = AroundDone

C23_TerminatorStrippedRestKept ==
    \A t \in Turns :
        (Ended(t) /\ TerminatorWithinText(t)) =>
            /\ pc[t] = "success"
            /\ PendingIn(chatMessages, t)
            /\ PendingOf(t).content = StripTerminator(AroundDone)

(***************************************************************************)
(* C24.  The single-flight check of sendMessage is one atomic check-and-   *)
(* set: the step that accepts a call while no turn is in flight leaves the *)
(* store in a state that rejects every other call, so of two calls issued  *)
(* to an idle, connected store the first is accepted and the second is     *)
(* rejected, whichever comes first; and the second stays rejected for as   *)
(* long as the request of the first is awaited.                            *)
(***************************************************************************)
StoreIdle == \A t \in Turns : ~InFlight(t)

AcceptsCall == \E t \in Turns : pc[t] = "idle" /\ pc'[t] = "awaiting"

C24_CheckAndSetIsAtomic ==
    /\ [](\A t \in Turns :
            (pc[t] = "awaiting" /\ \A u \in Turns \ {t} : pc[u] = "idle")
                => \A text \in EdgeTexts : Rejected(text))
    /\ [][(StoreIdle /\ AcceptsCall) =>
            /\ isAIResponding'
            /\ Cardinality({t \in Turns : InFlight(t)'}) = 1
            /\ \A text \in EdgeTexts : Rejected(text)']_vars

\* the first of two calls was accepted, the second is rejected
C24_Witness ==
    /\ pc = [t \in Turns |-> IF t = 1 THEN "awaiting" ELSE "idle"]
    /\ isModelConnected
    /\ UserCount(chatMessages) = 1
    /\ Rejected(<<"p">>)

(***************************************************************************)
(* C25.  The content is rendered first in, first out: in every state in    *)
(* which a turn is in flight, the content of its pending message is a      *)
(* prefix of the concatenation, in arrival order, of the texts of the      *)
(* content events of its stream.  (The streams meant hold content,         *)
(* thinking and error events and terminator lines, and their texts hold no *)
(* marker.)                                                                *)
(***************************************************************************)
IsPrefix(p, s) == Len(p) <= Len(s) /\ SubSeq(s, 1, Len(p)) = p

PlainEvents(t) ==
    /\ response[t].kind \in {"none", "text"}
    /\ \A k \in DOMAIN Lines(t) :
          \/ CarriesText(Lines(t)[k])
          \/ IsErrorEvent(Lines(t)[k])
          \/ Lines(t)[k].kind = "doneLine"

C25_RenderIsFifo ==
    \A t \in Turns :
        (InFlight(t) /\ PlainEvents(t) /\ PendingIn(chatMessages, t)) =>
            IsPrefix(PendingOf(t).content, AllContent(t))

(***************************************************************************)
(* C26.  A turn ends in Terminal-Success only if its stream held a content *)
(* event with some text; and once no turn is in flight, no assistant       *)
(* message of chatMessages has empty or blank content.                     *)
(***************************************************************************)
ContentObserved(t) == \E k \in DOMAIN Lines(t) : LineContent(Lines(t)[k]) # <<>>

C26_SuccessNeedsContent ==
    /\ \A t \in Turns : pc[t] = "success" => ContentObserved(t)
    /\ StoreIdle =>
            \A k \in DOMAIN chatMessages :
                chatMessages[k].role = "assistant" => Trim(chatMessages[k].content) # <<>>

(***************************************************************************)
(* C27.  Every sendMessage that was accepted reaches a terminal state: if  *)
(* the request ends and the timers fire, the turn ends in Terminal-Success *)
(* or in Terminal-Error and stays there, with one outcome recorded: the    *)
(* message of a turn that ended in success is in chatMessages, and there   *)
(* is one error message for every turn that ended in error.                *)
(***************************************************************************)
ErrorMessages == {k \in DOMAIN chatMessages : IsErrorMessage(chatMessages[k])}

ErrorTurns == {t \in Turns : pc[t] = "error"}

C27_AcceptedTurnTerminates ==
    /\ \A t \in Turns : (pc[t] # "idle") ~> Ended(t)
    /\ [](Cardinality(ErrorMessages) = Cardinality(ErrorTurns))
    /\ [](\A t \in Turns : pc[t] = "success" => PendingIn(chatMessages, t))
    /\ [][\A t \in Turns : Ended(t) => pc'[t] = pc[t]]_vars

\* one turn has ended with its message, the other with an error message
C27_Witness ==
    /\ pc[1] = "success"
    /\ pc[2] = "error"
    /\ Cardinality(ErrorMessages) = 1
    /\ ~isAIResponding
    /\ ~isStreamingContent

(***************************************************************************)
(* C28.  The status flags reflect the turn state in every state: a turn is *)
(* in flight if and only if isAIResponding or isStreamingContent is true,  *)
(* and when no turn is in flight the flags isAIResponding,                 *)
(* isStreamingContent and isThinking are false and currentThinkingContent  *)
(* is empty.                                                               *)
(***************************************************************************)
C28_FlagsReflectTurnState ==
    /\ (\E t \in Turns : InFlight(t)) <=> (isAIResponding \/ isStreamingContent)
    /\ StoreIdle =>
            /\ ~isAIResponding
            /\ ~isStreamingContent
            /\ ~isThinking
            /\ currentThinkingContent = <<>>

(***************************************************************************)
(* C29, as claimed: the step that accepts a call and issues the request of *)
(* its turn leaves, under the selected model's key, a conversation that    *)
(* ends with the new user message.                                         *)
(***************************************************************************)
Last(items) == items[Len(items)]

\* what is stored ends with the user message of turn t
UserMessageStored(store, t) ==
    LET saved == store[StorageKey(selectedModel)] IN
    /\ saved.kind = "chatData"
    /\ saved.messages # <<>>
    /\ Last(saved.messages).role = "user"
    /\ Last(saved.messages).content = content[t]
    /\ Last(saved.messages).id = assistantMessage[t].id - 1

Accepts(t) == pc[t] = "idle" /\ pc'[t] = "awaiting"

Reduced(m) == [role |-> m.role, content |-> m.content]

BeforePending(msgs) == [k \in 1..(Len(msgs) - 1) |-> Reduced(msgs[k])]

C30_HistoryPrecedesPending ==
    [][\A t \in Turns :
        Accepts(t) =>
            /\ request'[t].model = selectedModel
            /\ request'[t].messages = BeforePending(chatMessages')
            /\ Last(request'[t].messages) = [role |-> "user", content |-> content'[t]]]_vars

(***************************************************************************)
(* C31.  formatMessages returns, in the order of its input, one entry for  *)
(* each well-formed message, with the content trimmed; entries that are    *)
(* malformed are dropped; a role that is missing or is none of user,       *)
(* assistant and system becomes user; so every entry returned has a known  *)
(* role and a content that is not empty.                                   *)
(***************************************************************************)
KnownRoles == {"user", "assistant", "system"}

\* an entry that is an object and has content other than blanks
WellFormed(msg) == msg.role # "malformed" /\ Trim(msg.content) # <<>>

ClaimedEntry(msg) ==
    [role |-> IF msg.role \in KnownRoles THEN msg.role ELSE "user",
     content |-> Trim(msg.content)]

ClaimedFormat(messages) ==
    LET kept == SelectSeq(messages, WellFormed)
    IN  [k \in DOMAIN kept |-> ClaimedEntry(kept[k])]

C31_FormatKeepsWellFormed ==
    formatted # NotCalled =>
        /\ formatted = ClaimedFormat(formatInput)
        /\ \A k \in DOMAIN formatted :
              formatted[k].role \in KnownRoles /\ formatted[k].content # <<>>

(***************************************************************************)
(* C32.  A content payload longer than the threshold (20 for content of a  *)
(* structured line, 30 for plain text) is emitted as two or more content   *)
(* events, none empty and none longer than the threshold, whose            *)
(* concatenation in the order of emission is the payload; a payload at or  *)
(* below the threshold is emitted as one event.                            *)
(***************************************************************************)
ThresholdOf(l) == IF l.kind = "plain" THEN PlainThreshold ELSE StructuredThreshold

IsPayloadLine(l) == l.kind = "plain" \/ (l.kind = "event" /\ l.type = "content")

C32_SplitKeepsPayload ==
    IsPayloadLine(line) =>
        IF Len(line.text) > ThresholdOf(line)
        THEN /\ Len(emitted) >= 2
             /\ \A k \in DOMAIN emitted :
                   emitted[k] # <<>> /\ Len(emitted[k]) <= ThresholdOf(line)
             /\ Concat(emitted) = line.text
        ELSE emitted = <<line.text>>

(***************************************************************************)
(* C33.  A line that looks structured and fails to parse does not end the  *)
(* turn: its stripped text is emitted as one content event when it is not  *)
(* empty and holds no terminator, and nothing is emitted otherwise; no     *)
(* error event is made for it; and the lines that follow it are still      *)
(* processed: a turn ends in error only when no line of its response       *)
(* emitted anything, and a turn that ends well holds what all its lines    *)
(* emitted.                                                                *)
(***************************************************************************)
IsGarbled(l) == l.kind = "badJson"

Recoverable(l) == l.text # <<>> /\ ~Includes(l.text, DoneToken)

Answered(t) == pc[t] \in {"typing", "success", "error"} /\ response[t].kind = "text"

C33_GarbledLineRecovered ==
    \A t \in Turns :
        Answered(t) =>
            LET ls == response[t].lines IN
            /\ \A k \in DOMAIN ls :
                  IsGarbled(ls[k]) =>
                      /\ ProcessLine(ls[k]) = IF Recoverable(ls[k]) THEN <<ls[k].text>> ELSE <<>>
                      /\ \A n \in DOMAIN ProcessLine(ls[k]) :
                            ~StartsWith(ProcessLine(ls[k])[n], ErrorMarker)
            /\ pc[t] = "error" => ProcessLines(ls) = <<>>
            /\ pc[t] = "success" =>
                  PendingIn(chatMessages, t) /\ PendingOf(t).content = Concat(ProcessLines(ls))

\* a turn has ended well whose response began with a line that failed to
\* parse, followed by a content event
C33_Witness ==
    \E t \in Turns :
        /\ pc[t] = "success"
        /\ response[t].kind = "text"
        /\ response[t].lines = <<[kind |-> "badJson", text |-> Garbled], Event("content", <<"a">>)>>
        /\ PendingOf(t).content = Garbled \o <<"a">>

(***************************************************************************)
(* C34.  After clearConversation the list of messages is empty and the     *)
(* cleared state is what is stored: loadConversationFromStorage for the    *)
(* same model, called next, gives an empty list and not the history from   *)
(* before the clear.                                                       *)
(***************************************************************************)
C34_ClearIsPersisted ==
    [][ClearConversation =>
          /\ chatMessages' = <<>>
          /\ LoadedMessages(storage', StorageKey(selectedModel')) = <<>>]_vars

(***************************************************************************)
(* C35.  A turn started while one model is selected never appends to,      *)
(* overwrites or stores into the conversation of another model, also when  *)
(* the selected model is changed while the turn is in flight: no step of   *)
(* the turn taken while another model is selected changes the list of      *)
(* messages or what the key of that model holds.                           *)
(***************************************************************************)
\* a step of the handlers of turn t: its response arrives or its timer fires
TurnActs(t) ==
    /\ InFlight(t)
    /\ <<pc[t], queue[t], chars[t], response[t]>>' # <<pc[t], queue[t], chars[t], response[t]>>

C35_TurnStaysInItsModel ==
    [][\A t \in Turns :
          TurnActs(t) /\ request[t].model # selectedModel =>
              /\ chatMessages' = chatMessages
              /\ LoadedMessages(storage', StorageKey(selectedModel))
                    = LoadedMessages(storage, StorageKey(selectedModel))]_vars

(***************************************************************************)
(* C36.  Once a call of sendMessage has ended, no step of a later call     *)
(* changes the id, the role, the content or the thinking of a message that *)
(* was in the list when it ended, removes such a message, or changes the   *)
(* order of such messages: the history only grows.                         *)
(***************************************************************************)
\* what the messages with an id of ids look like, in their order in msgs
Frozen(msgs, th, ids) ==
    LET Was(m) == m.id \in ids
        kept == SelectSeq(msgs, Was)
    IN  [k \in DOMAIN kept |->
            [id |-> kept[k].id, role |-> kept[k].role, content |-> kept[k].content,
             thinking |-> ThinkingOf(kept[k], th)]]

\* a step of a call that was made after call t
LaterActs(t) == \E u \in Turns : u > t /\ TurnActs(u)

C36_HistoryIsFrozen ==
    [][\A t \in Turns :
          Ended(t) /\ LaterActs(t) =>
              Frozen(chatMessages', thinking', frozen[t]) = Frozen(chatMessages, thinking, frozen[t])]_vars

(***************************************************************************)
(* C37.  In the terminal store a cancellation is final: once               *)
(* cancelConnection has completed for an attempt that was connecting,      *)
(* connectionStatus stays disconnected until connectToDevice is called     *)
(* again; a result of the cancelled attempt that comes late moves the      *)
(* store neither to connected nor to error, and sets no sessionId.         *)
(***************************************************************************)
\* cancelConnection has completed, and nothing has happened since
JustCancelled ==
    /\ connectionStatus = "disconnected"
    /\ terminalOutput # <<>>
    /\ Last(terminalOutput) = "cancelled"

C37_CancellationIsFinal ==
    [][JustCancelled /\ connectCalls' = connectCalls =>
          /\ connectionStatus' = "disconnected"
          /\ sessionId' \in {sessionId, NoSession}]_vars

(***************************************************************************)
(* C38.  In every reachable state of the terminal store, under every       *)
(* interleaving of connectToDevice, cancelConnection, disconnect,          *)
(* executeCommand and the completions of their requests, sessionId is not  *)
(* null exactly when connectionStatus is connected.                        *)
(***************************************************************************)
C38_SessionIffConnected == (sessionId # NoSession) <=> (connectionStatus = "connected")

(***************************************************************************)
(* C39.  After any sequence of executeCommand, getPreviousCommand and      *)
(* getNextCommand, commandHistory holds at most 50 commands, the most      *)
(* recent first, and historyIndex is within -1..length-1; executeCommand   *)
(* sets historyIndex to -1; and executeCommand called while the store is   *)
(* not connected changes neither the history nor the output.               *)
(***************************************************************************)
\* the commands typed so far, the last one first, the oldest beyond the
\* limit dropped (the k-th command typed is named k)
MostRecentFirst == [k \in 1..Min(typed, HistoryLimit) |-> typed - k + 1]

IsConnected == sessionId # NoSession /\ connectionStatus = "connected"

C39_HistoryBounded ==
    /\ [](/\ Len(commandHistory) <= HistoryLimit
          /\ commandHistory = MostRecentFirst
          /\ historyIndex \in -1..(Len(commandHistory) - 1))
    /\ [][ExecuteCommand(typed + 1) =>
            IF IsConnected
            THEN historyIndex' = -1 /\ Head(commandHistory') = typed + 1
            ELSE commandHistory' = commandHistory /\ terminalOutput' = terminalOutput]_vars

\* one command more than the limit has been typed, the history has been
\* walked to its oldest entry, and the session is gone
C39_Witness ==
    /\ typed = HistoryLimit + 1
    /\ Len(commandHistory) = HistoryLimit
    /\ historyIndex = HistoryLimit - 1
    /\ commandHistory[historyIndex + 1] = 2
    /\ ~IsConnected

=============================================================================
